---- MODULE Spec2Model ----
(***************************************************************************)
(* Order commitment, payment reconciliation and catalog edits of the       *)
(* delivery platform backend, over a MongoDB document store.               *)
(*                                                                         *)
(* Collections: products (Product model) and orders (Order model).         *)
(* Handlers that open a session transaction (POST /api/orders, the Stripe  *)
(* webhook) run over a snapshot of the store taken at their first read,    *)
(* buffer their writes, and fail with a write conflict when they write a   *)
(* document that another transaction has written since that snapshot or    *)
(* holds uncommitted.  Documents are written field-wise ($set of the       *)
(* modified paths), as Mongoose's save() does.                             *)
(*                                                                         *)
(* Money is counted in cents; intermediate products of the 5% tax are      *)
(* counted in hundredths of a cent and rounded by toFixed(2).              *)
(***************************************************************************)
EXTENDS Integers, Sequences, FiniteSets, TLC

\* ------------------------------------------------------------ bounds
MaxOrders == 1          \* orders in the ledger beyond which no commitment starts
InitStock == 2          \* stockQuantity of product P1 at start

MaxEdits == 1           \* catalog edits in one behaviour
MaxUpdates == 2         \* lifecycle requests (status, accept, assign, payment intent) in one behaviour

Requests == {1, 2}                    \* slots of requests in flight at the same time
Products == {"P1", "P2"}              \* product ids of the catalog
NoSuchProduct == "P0"                 \* a well-formed id of no product
Quantities == {1, 2}                  \* line quantities a cart may carry
PriceSet == {500, 700}                \* unit prices in cents
PaymentIntents == {"pi1", "pi2"}      \* provider payment intents
LineCounts == {1, 2}                  \* numbers of lines a cart may have

Undefined == "undefined"
Null == "null"
ClientName == "client-name"           \* the name a cart line carries
InitName == [p \in Products |-> IF p = "P1" THEN "Milk" ELSE "Bread"]
InitPrice == [p \in Products |-> IF p = "P1" THEN 500 ELSE 700]
\* P2 is a single-unit product.
InitStockOf == [p \in Products |-> IF p = "P1" THEN InitStock ELSE 1]

\* ------------------------------------------------------------ program constants
TAX_RATE_PERCENT == 5                 \* TAX_RATE = 0.05
SHIPPING_COST == 1000                 \* SHIPPING_COST = 10.00, in cents

OrderStatuses == {"Pending", "Processing", "Out for Delivery", "Delivered", "Cancelled"}

\* ------------------------------------------------------------ helpers
RECURSIVE SumSeq(_)
SumSeq(s) == IF s = <<>> THEN 0 ELSE Head(s) + SumSeq(Tail(s))

\* Number.prototype.toFixed(2) followed by Mongoose's cast to Number:
\* x is in hundredths of a cent, the result in cents, a tie rounding up.
ToFixed2(x) == (x + 50) \div 100

\* ------------------------------------------------------------ Order model
\* Paths of orderSchema that the model keeps (shippingAddress, user, image and
\* the timestamps play no part in the handlers' decisions).
OrderPaths == {"orderItems", "paymentMethod", "paymentResult", "taxPrice",
               "shippingPrice", "totalPrice", "isPaid", "paidAt", "isDelivered",
               "deliveredAt", "orderStatus", "deliveryAgent"}

NoPaymentResult == [id |-> Undefined, status |-> Undefined, update_time |-> Undefined]

OrderDefaults ==
    [orderItems |-> <<>>, paymentMethod |-> Undefined, paymentResult |-> NoPaymentResult,
     taxPrice |-> 0, shippingPrice |-> 0, totalPrice |-> 0, isPaid |-> FALSE,
     paidAt |-> Undefined, isDelivered |-> FALSE, deliveredAt |-> Undefined,
     orderStatus |-> "Pending", deliveryAgent |-> Null]

\* new Order(obj): strict schema, paths outside the schema are dropped and
\* missing paths take their default.
NewOrder(obj) ==
    [f \in OrderPaths |-> IF f \in DOMAIN obj THEN obj[f] ELSE OrderDefaults[f]]

\* Order validation on save: required paths and the orderStatus enum.
OrderValid(doc) ==
    /\ doc.paymentMethod # Undefined
    /\ doc.orderStatus \in OrderStatuses
    /\ \A i \in 1..Len(doc.orderItems) : doc.orderItems[i].name # Undefined

\* ------------------------------------------------------------ Product model
\* A Product schema without the min validator of stockQuantity.
ProductValidNoMin(doc) == doc.price >= 0

\* Product validation on save: min validators of price and stockQuantity.
ProductValid(doc) ==
    /\ doc.price >= 0
    /\ doc.stockQuantity >= 0

\* ------------------------------------------------------------ state
VARIABLES
    products,   \* committed Product collection: id -> document
    orders,     \* committed Order collection: sequence, the index is the _id
    pc,         \* per request slot: where its handler stands
    txn,        \* per request slot: its open session transaction
    resp,       \* per request slot: the last response sent
    nedits,     \* catalog edits so far
    nupdates,   \* lifecycle requests so far
    intents     \* the provider's payment intents: the order each is for, and whether paid

vars == <<products, orders, pc, txn, resp, nedits, nupdates, intents>>

NoTxn == [kind |-> "none"]
NoResp == [status |-> 0, kind |-> "none", product |-> Undefined, n |-> 0]
Resp(status, kind) == [status |-> status, kind |-> kind, product |-> Undefined, n |-> 0]
RespAbout(status, kind, name, n) == [status |-> status, kind |-> kind, product |-> name, n |-> n]

ProductKey(p) == <<"Product", p>>
OrderKey(i) == <<"Order", i>>

\* Kinds of txn that are session transactions; the kind "save" is a document
\* loaded by a handler that saves it outside any transaction.
SessionKinds == {"order", "webhook"}

Open(r) == txn[r].kind \in SessionKinds

\* Slots are interchangeable: a request is taken by the lowest idle slot.
Idle(r) == pc[r] = "idle" /\ \A q \in Requests : q < r => pc[q] # "idle"

\* A store that detects no write conflict between transactions.
WriteConflictNever(r, k) == FALSE

\* A write by r to document k fails with WriteConflict when another open
\* transaction holds k uncommitted or k was committed after r's snapshot.
WriteConflict(r, k) ==
    \/ k \in txn[r].stale
    \/ \E q \in Requests \ {r} : Open(q) /\ k \in txn[q].writes

\* Committing or writing outside a transaction the documents ks makes them
\* stale for every other open transaction.
MarkStale(t, r, ks) ==
    [q \in Requests |->
        IF q # r /\ t[q].kind \in SessionKinds
        THEN [t[q] EXCEPT !.stale = @ \cup ks]
        ELSE t[q]]

\* No payment intent has been created: 0 stands for no order.
NoIntents == [pi \in PaymentIntents |-> [order |-> 0, paid |-> FALSE]]

\* The catalog at the start.
InitProducts ==
    [p \in Products |->
        [name |-> InitName[p], price |-> InitPrice[p], stockQuantity |-> InitStockOf[p]]]

Init ==
    /\ products = InitProducts
    /\ orders = <<>>
    /\ pc = [r \in Requests |-> "idle"]
    /\ txn = [r \in Requests |-> NoTxn]
    /\ resp = [r \in Requests |-> NoResp]
    /\ nedits = 0
    /\ nupdates = 0
    /\ intents = NoIntents

\* ------------------------------------------------------------ POST /api/orders
\* Cart lines: any line of a product of the catalog, and one line of an id of
\* no product (its price and quantity are never read).
CartLines == [product : Products, name : {ClientName},
              price : PriceSet, quantity : Quantities]
             \cup [product : {NoSuchProduct}, name : {ClientName},
                   price : {500}, quantity : {1}]
Carts == UNION {[1..n -> CartLines] : n \in LineCounts}
PaymentMethods == {"card", Undefined}

\* A price comparison that rejects only a claimed price below the catalog's.
PriceMismatchLowerOnly(product, item) == product.price > item.price

\* A stock comparison that rejects only a product that is out of stock.
InsufficientStockWhenEmpty(product, item) == product.stockQuantity <= 0

\* product.price !== item.price and product.stockQuantity < item.quantity
PriceMismatch(product, item) == product.price # item.price
InsufficientStock(product, item) == product.stockQuantity < item.quantity

\* An order line that keeps the name and price the client sent.
OrderItemFromClient(id, product, item) ==
    [name |-> item.name, quantity |-> item.quantity,
     price |-> item.price, product |-> id]

\* The verified order line pushed to newOrderItems.
OrderItem(id, product, item) ==
    [name |-> product.name, quantity |-> item.quantity,
     price |-> product.price, product |-> id]

\* The per-line validation loop over the transaction's view of the catalog:
\* the response of the first failing check of the first failing line, or the
\* verified lines.
RECURSIVE ValidateLines(_, _, _, _)
ValidateLines(view, cart, i, acc) ==
    IF i > Len(cart) THEN [ok |-> TRUE, items |-> acc, resp |-> NoResp]
    ELSE LET item == cart[i] IN
         IF item.product \notin DOMAIN view
         THEN [ok |-> FALSE, items |-> <<>>,
               resp |-> RespAbout(404, "ProductNotFound", item.name, 0)]
         ELSE LET product == view[item.product] IN
              IF PriceMismatch(product, item)
              THEN [ok |-> FALSE, items |-> <<>>,
                    resp |-> RespAbout(400, "PriceMismatch", product.name, product.price)]
              ELSE IF InsufficientStock(product, item)
              THEN [ok |-> FALSE, items |-> <<>>,
                    resp |-> RespAbout(400, "InsufficientStock", product.name,
                                       product.stockQuantity)]
              ELSE ValidateLines(view, cart, i + 1,
                                 Append(acc, OrderItem(item.product, product, item)))

ValidateCart(view, cart) == ValidateLines(view, cart, 1, <<>>)

CalculatedItemsPrice(items) ==
    SumSeq([i \in 1..Len(items) |-> items[i].price * items[i].quantity])

\* The object handed to new Order(...): prices computed by the server, each
\* passed through toFixed(2).
OrderObject(items, paymentMethod) ==
    LET itemsPrice == CalculatedItemsPrice(items) * 100
        taxPrice == CalculatedItemsPrice(items) * TAX_RATE_PERCENT
        shippingPrice == SHIPPING_COST * 100
    IN [orderItems |-> items,
        paymentMethod |-> paymentMethod,
        itemsPrice |-> ToFixed2(itemsPrice),
        taxPrice |-> ToFixed2(taxPrice),
        shippingPrice |-> ToFixed2(shippingPrice),
        totalPrice |-> ToFixed2(itemsPrice + taxPrice + shippingPrice),
        orderStatus |-> "Pending"]

\* The handler up to order.save({session}): the transaction starts, the cart
\* is validated against its snapshot, the order is built, validated and
\* inserted in the transaction.  A failure aborts and answers.
CreateOrder(r) ==
    /\ Idle(r)
    /\ Len(orders) < MaxOrders
    /\ \E cart \in Carts, paymentMethod \in PaymentMethods :
         LET v == ValidateCart(products, cart)
             order == NewOrder(OrderObject(v.items, paymentMethod))
         IN IF ~v.ok
            THEN /\ resp' = [resp EXCEPT ![r] = v.resp]
                 /\ UNCHANGED <<pc, txn>>
            ELSE IF ~OrderValid(order)
            THEN /\ resp' = [resp EXCEPT ![r] = Resp(400, "ValidationError")]
                 /\ UNCHANGED <<pc, txn>>
            ELSE /\ pc' = [pc EXCEPT ![r] = "decrement"]
                 /\ txn' = [txn EXCEPT ![r] =
                              [kind |-> "order", items |-> v.items, idx |-> 1,
                               order |-> order, orderId |-> 0, view |-> products,
                               writes |-> {}, stale |-> {}]]
                 /\ resp' = [resp EXCEPT ![r] = NoResp]
    /\ UNCHANGED <<products, orders, nedits, nupdates, intents>>

\* A decrement of one unit per line, whatever the line's quantity.
DecrementStockByOne(product, item) ==
    [product EXCEPT !.stockQuantity = @ - 1]

\* product.stockQuantity -= item.quantity
DecrementStock(product, item) ==
    [product EXCEPT !.stockQuantity = @ - item.quantity]

\* A decrement loop whose product.save() is not given the session: the write
\* reaches the store at once and an abort does not undo it.
CreateOrderDecrementNoSession(r) ==
    /\ pc[r] = "decrement"
    /\ LET t == txn[r]
           item == t.items[t.idx]
           p == item.product
           product == [t.view[p] EXCEPT !.stockQuantity = @ - item.quantity]
       IN IF product.stockQuantity < 0
          THEN /\ resp' = [resp EXCEPT ![r] = Resp(400, "ValidationError")]
               /\ pc' = [pc EXCEPT ![r] = "idle"]
               /\ txn' = [txn EXCEPT ![r] = NoTxn]
               /\ UNCHANGED products
          ELSE /\ txn' = [txn EXCEPT ![r].view[p] = product, ![r].idx = @ + 1]
               /\ products' = [products EXCEPT ![p] = product]
               /\ pc' = [pc EXCEPT ![r] = IF t.idx = Len(t.items) THEN "commit" ELSE "decrement"]
               /\ UNCHANGED resp
    /\ UNCHANGED <<orders, nedits, nupdates, intents>>

\* A decrement loop whose catch block answers the error without
\* session.abortTransaction() and session.endSession(): the transaction
\* stays open behind the response.
CreateOrderDecrementNoAbort(r) ==
    /\ pc[r] = "decrement"
    /\ LET t == txn[r]
           item == t.items[t.idx]
           p == item.product
           product == DecrementStock(t.view[p], item)
       IN IF ~ProductValid(product)
          THEN /\ resp' = [resp EXCEPT ![r] = Resp(400, "ValidationError")]
               /\ pc' = [pc EXCEPT ![r] = "idle"]
               /\ UNCHANGED txn
          ELSE IF WriteConflict(r, ProductKey(p))
          THEN /\ resp' = [resp EXCEPT ![r] = Resp(500, "ServerError")]
               /\ pc' = [pc EXCEPT ![r] = "idle"]
               /\ UNCHANGED txn
          ELSE /\ txn' = [txn EXCEPT ![r].view[p] = product,
                                     ![r].writes = @ \cup {ProductKey(p)},
                                     ![r].idx = @ + 1]
               /\ pc' = [pc EXCEPT ![r] = IF t.idx = Len(t.items) THEN "commit" ELSE "decrement"]
               /\ UNCHANGED resp
    /\ UNCHANGED <<products, orders, nedits, nupdates, intents>>

\* A decrement loop whose product.save() runs no validator.
CreateOrderDecrementNoValidate(r) ==
    /\ pc[r] = "decrement"
    /\ LET t == txn[r]
           item == t.items[t.idx]
           p == item.product
           product == DecrementStock(t.view[p], item)
       IN IF WriteConflict(r, ProductKey(p))
          THEN /\ resp' = [resp EXCEPT ![r] = Resp(500, "ServerError")]
               /\ pc' = [pc EXCEPT ![r] = "idle"]
               /\ txn' = [txn EXCEPT ![r] = NoTxn]
          ELSE /\ txn' = [txn EXCEPT ![r].view[p] = product,
                                     ![r].writes = @ \cup {ProductKey(p)},
                                     ![r].idx = @ + 1]
               /\ pc' = [pc EXCEPT ![r] = IF t.idx = Len(t.items) THEN "commit" ELSE "decrement"]
               /\ UNCHANGED resp
    /\ UNCHANGED <<products, orders, nedits, nupdates, intents>>

\* One turn of the decrement loop: findById in the session, decrement,
\* product.save({session}).  A validation error or a write conflict is
\* caught: the transaction is aborted and the error answered.
CreateOrderDecrement(r) ==
    /\ pc[r] = "decrement"
    /\ LET t == txn[r]
           item == t.items[t.idx]
           p == item.product
           product == DecrementStock(t.view[p], item)
       IN IF ~ProductValid(product)
          THEN /\ resp' = [resp EXCEPT ![r] = Resp(400, "ValidationError")]
               /\ pc' = [pc EXCEPT ![r] = "idle"]
               /\ txn' = [txn EXCEPT ![r] = NoTxn]
          ELSE IF WriteConflict(r, ProductKey(p))
          THEN /\ resp' = [resp EXCEPT ![r] = Resp(500, "ServerError")]
               /\ pc' = [pc EXCEPT ![r] = "idle"]
               /\ txn' = [txn EXCEPT ![r] = NoTxn]
          ELSE /\ txn' = [txn EXCEPT ![r].view[p] = product,
                                     ![r].writes = @ \cup {ProductKey(p)},
                                     ![r].idx = @ + 1]
               /\ pc' = [pc EXCEPT ![r] = IF t.idx = Len(t.items) THEN "commit" ELSE "decrement"]
               /\ UNCHANGED resp
    /\ UNCHANGED <<products, orders, nedits, nupdates, intents>>

\* The products after a transaction's buffered stock writes are applied.
ApplyProductWrites(prods, t) ==
    [p \in DOMAIN prods |->
        IF ProductKey(p) \in t.writes
        THEN [prods[p] EXCEPT !.stockQuantity = t.view[p].stockQuantity]
        ELSE prods[p]]

\* session.commitTransaction() and the 201 response.
CreateOrderCommit(r) ==
    /\ pc[r] = "commit"
    /\ products' = ApplyProductWrites(products, txn[r])
    /\ orders' = Append(orders, txn[r].order)
    /\ txn' = [MarkStale(txn, r, txn[r].writes) EXCEPT ![r] = NoTxn]
    /\ pc' = [pc EXCEPT ![r] = "idle"]
    /\ resp' = [resp EXCEPT ![r] = RespAbout(201, "Created", Undefined, Len(orders) + 1)]
    /\ UNCHANGED <<nedits, nupdates, intents>>

\* ------------------------------------------------------------ PUT /api/products/:id
\* Request bodies of a catalog edit: a path left out of the body is undefined.
\* A price or stockQuantity is written as the set of the one number sent, an
\* undefined one as the empty set.
ProductNames == {"Milk", "Bread", "Butter"}
EditBodies == [name : ProductNames \cup {Undefined},
               price : {{}} \cup {{x} : x \in PriceSet},
               stockQuantity : {{}, {0}, {-1}}]

\* product.<path> = body.<path> !== undefined ? body.<path> : product.<path>
UpdateProduct(product, body) ==
    [product EXCEPT
        !.name = IF body.name # Undefined THEN body.name ELSE @,
        !.price = IF body.price # {} THEN CHOOSE x \in body.price : TRUE ELSE @,
        !.stockQuantity = IF body.stockQuantity # {}
                          THEN CHOOSE x \in body.stockQuantity : TRUE ELSE @]

\* The unique index on Product.name.
DuplicateName(prods, p, doc) ==
    \E q \in DOMAIN prods \ {p} : prods[q].name = doc.name

\* A catalog edit that also rewrites the lines of the orders of the product.
UpdateProductRouteCascade ==
    /\ nedits < MaxEdits
    /\ nedits' = nedits + 1
    /\ \E p \in Products, body \in EditBodies :
         LET doc == UpdateProduct(products[p], body) IN
         /\ \A q \in Requests : Open(q) => ProductKey(p) \notin txn[q].writes
         /\ doc # products[p]
         /\ IF ProductValid(doc) /\ ~DuplicateName(products, p, doc)
            THEN /\ products' = [products EXCEPT ![p] = doc]
                 /\ txn' = MarkStale(txn, 0, {ProductKey(p)})
                 /\ orders' = [i \in 1..Len(orders) |->
                                 [orders[i] EXCEPT !.orderItems =
                                    [j \in 1..Len(@) |->
                                        IF @[j].product = p
                                        THEN [@[j] EXCEPT !.name = doc.name, !.price = doc.price]
                                        ELSE @[j]]]]
            ELSE UNCHANGED <<products, txn, orders>>
    /\ UNCHANGED <<pc, resp, nupdates, intents>>

\* findById, assignment of the body's paths, product.save(): a write outside
\* any transaction.  It waits while a transaction holds the product
\* uncommitted; a save that modifies no path writes nothing.
UpdateProductRoute ==
    /\ nedits < MaxEdits
    /\ nedits' = nedits + 1
    /\ \E p \in Products, body \in EditBodies :
         LET doc == UpdateProduct(products[p], body) IN
         /\ \A q \in Requests : Open(q) => ProductKey(p) \notin txn[q].writes
         /\ doc # products[p]
         /\ IF ProductValid(doc) /\ ~DuplicateName(products, p, doc)
            THEN /\ products' = [products EXCEPT ![p] = doc]
                 /\ txn' = MarkStale(txn, 0, {ProductKey(p)})
            ELSE UNCHANGED <<products, txn>>
    /\ UNCHANGED <<orders, pc, resp, nupdates, intents>>

\* ------------------------------------------------------------ POST /api/payments/webhook
EventTypes == {"payment_intent.succeeded", "payment_intent.payment_failed", "charge.refunded"}
\* metadata.order_id: 0 stands for an intent without order_id, an id above
\* the number of orders for an id of no order.
Events == [signatureValid : BOOLEAN, type : {"payment_intent.succeeded"},
           order_id : 0..(MaxOrders + 1), id : PaymentIntents]
          \cup [signatureValid : {TRUE}, type : EventTypes,
                order_id : {1}, id : {"pi1"}]

\* new Date(paymentIntent.created * 1000), a function of the intent.
CreatedAt(pi) == IF pi = "pi1" THEN "created-pi1" ELSE "created-pi2"

\* The order document after the handler's assignments on payment success.
MarkPaid(order, pi) ==
    [order EXCEPT
        !.isPaid = TRUE,
        !.paidAt = CreatedAt(pi),
        !.paymentResult = [id |-> pi, status |-> "succeeded", update_time |-> CreatedAt(pi)],
        !.orderStatus = "Processing"]

\* A constructEvent that accepts any signature.
ConstructEventUnverified(event) == TRUE

\* stripe.webhooks.constructEvent: throws unless the signature verifies.
ConstructEvent(event) == event.signatureValid

\* A dispatch that takes every event type for a payment success.
IsPaymentSucceededAny(event) == TRUE

\* case 'payment_intent.succeeded' of the switch on event.type
IsPaymentSucceeded(event) == event.type = "payment_intent.succeeded"

\* An already-paid test that never recognises a paid order.
AlreadyPaidNever(order) == FALSE

\* if (order.isPaid)
AlreadyPaid(order) == order.isPaid

\* The handler up to the stock reduction loop: signature verification, the
\* dispatch on the event type, and for a payment success the transaction's
\* first read, the order, with its not-found and already-paid returns.  The
\* three acknowledgements { received: true } are told apart by the path that
\* sends them: "Ignored" for another event type, "Duplicate" for an order
\* already paid, "received" after a commit; n is the order's id.
Webhook(r) ==
    /\ Idle(r)
    /\ \E event \in Events :
         IF ~ConstructEvent(event)
         THEN /\ resp' = [resp EXCEPT ![r] = Resp(400, "WebhookError")]
              /\ UNCHANGED <<pc, txn>>
         ELSE IF ~IsPaymentSucceeded(event)
         THEN /\ resp' = [resp EXCEPT ![r] = Resp(200, "Ignored")]
              /\ UNCHANGED <<pc, txn>>
         ELSE IF event.order_id = 0
         THEN /\ resp' = [resp EXCEPT ![r] = Resp(400, "NoOrderId")]
              /\ UNCHANGED <<pc, txn>>
         ELSE IF event.order_id \notin 1..Len(orders)
         THEN /\ resp' = [resp EXCEPT ![r] = Resp(404, "OrderNotFound")]
              /\ UNCHANGED <<pc, txn>>
         ELSE IF AlreadyPaid(orders[event.order_id])
         THEN /\ resp' = [resp EXCEPT ![r] =
                            RespAbout(200, "Duplicate", Undefined, event.order_id)]
              /\ UNCHANGED <<pc, txn>>
         ELSE LET order == MarkPaid(orders[event.order_id], event.id) IN
              /\ pc' = [pc EXCEPT ![r] = IF order.orderItems = <<>> THEN "saveOrder" ELSE "reduceStock"]
              /\ txn' = [txn EXCEPT ![r] =
                           [kind |-> "webhook", items |-> order.orderItems, idx |-> 1,
                            order |-> order, orderId |-> event.order_id, view |-> products,
                            writes |-> {}, stale |-> {},
                            event |-> [signatureValid |-> event.signatureValid,
                                       type |-> event.type]]]
              /\ resp' = [resp EXCEPT ![r] = NoResp]
    /\ UNCHANGED <<products, orders, nedits, nupdates, intents>>

\* A stock reduction loop that passes over a line it cannot serve instead of
\* failing the reconciliation.
WebhookReduceStockSkipShort(r) ==
    /\ pc[r] = "reduceStock"
    /\ LET t == txn[r]
           item == t.items[t.idx]
           p == item.product
           next == IF t.idx = Len(t.items) THEN "saveOrder" ELSE "reduceStock"
       IN IF t.view[p].stockQuantity < item.quantity
          THEN /\ txn' = [txn EXCEPT ![r].idx = @ + 1]
               /\ pc' = [pc EXCEPT ![r] = next]
               /\ UNCHANGED resp
          ELSE IF WriteConflict(r, ProductKey(p))
          THEN /\ resp' = [resp EXCEPT ![r] = Resp(500, "TransactionFailed")]
               /\ pc' = [pc EXCEPT ![r] = "idle"]
               /\ txn' = [txn EXCEPT ![r] = NoTxn]
          ELSE /\ txn' = [txn EXCEPT ![r].view[p] = DecrementStock(t.view[p], item),
                                     ![r].writes = @ \cup {ProductKey(p)},
                                     ![r].idx = @ + 1]
               /\ pc' = [pc EXCEPT ![r] = next]
               /\ UNCHANGED resp
    /\ UNCHANGED <<products, orders, nedits, nupdates, intents>>

\* One turn of the stock reduction loop: findById in the session, the stock
\* re-check with its 409 return, the decrement and product.save({session}).
WebhookReduceStock(r) ==
    /\ pc[r] = "reduceStock"
    /\ LET t == txn[r]
           item == t.items[t.idx]
           p == item.product
           next == IF t.idx = Len(t.items) THEN "saveOrder" ELSE "reduceStock"
       IN IF p \notin DOMAIN t.view
          THEN /\ txn' = [txn EXCEPT ![r].idx = @ + 1]
               /\ pc' = [pc EXCEPT ![r] = next]
               /\ UNCHANGED resp
          ELSE IF InsufficientStock(t.view[p], item)
          THEN /\ resp' = [resp EXCEPT ![r] =
                             RespAbout(409, "Conflict", t.view[p].name, t.view[p].stockQuantity)]
               /\ pc' = [pc EXCEPT ![r] = "idle"]
               /\ txn' = [txn EXCEPT ![r] = NoTxn]
          ELSE IF ~ProductValid(DecrementStock(t.view[p], item))
                  \/ WriteConflict(r, ProductKey(p))
          THEN /\ resp' = [resp EXCEPT ![r] = Resp(500, "TransactionFailed")]
               /\ pc' = [pc EXCEPT ![r] = "idle"]
               /\ txn' = [txn EXCEPT ![r] = NoTxn]
          ELSE /\ txn' = [txn EXCEPT ![r].view[p] = DecrementStock(t.view[p], item),
                                     ![r].writes = @ \cup {ProductKey(p)},
                                     ![r].idx = @ + 1]
               /\ pc' = [pc EXCEPT ![r] = next]
               /\ UNCHANGED resp
    /\ UNCHANGED <<products, orders, nedits, nupdates, intents>>

\* order.save({session}): the update of the order inside the transaction.
WebhookSaveOrder(r) ==
    /\ pc[r] = "saveOrder"
    /\ IF ~OrderValid(txn[r].order) \/ WriteConflict(r, OrderKey(txn[r].orderId))
       THEN /\ resp' = [resp EXCEPT ![r] = Resp(500, "TransactionFailed")]
            /\ pc' = [pc EXCEPT ![r] = "idle"]
            /\ txn' = [txn EXCEPT ![r] = NoTxn]
       ELSE /\ txn' = [txn EXCEPT ![r].writes = @ \cup {OrderKey(txn[r].orderId)}]
            /\ pc' = [pc EXCEPT ![r] = "commitPaid"]
            /\ UNCHANGED resp
    /\ UNCHANGED <<products, orders, nedits, nupdates, intents>>

\* The order after the $set of the paths the handler assigned.
ApplyOrderWrite(order, t) ==
    [order EXCEPT
        !.isPaid = t.order.isPaid,
        !.paidAt = t.order.paidAt,
        !.paymentResult = t.order.paymentResult,
        !.orderStatus = t.order.orderStatus]

\* session.commitTransaction() and the acknowledgement after the switch.
WebhookCommit(r) ==
    /\ pc[r] = "commitPaid"
    /\ products' = ApplyProductWrites(products, txn[r])
    /\ orders' = [orders EXCEPT ![txn[r].orderId] = ApplyOrderWrite(@, txn[r])]
    /\ txn' = [MarkStale(txn, r, txn[r].writes) EXCEPT ![r] = NoTxn]
    /\ pc' = [pc EXCEPT ![r] = "idle"]
    /\ resp' = [resp EXCEPT ![r] = RespAbout(200, "received", Undefined, txn[r].orderId)]
    /\ UNCHANGED <<nedits, nupdates, intents>>

\* ------------------------------------------------------------ order lifecycle routes
\* PUT /:id/status (two revisions), PUT /:id/accept, PUT /:id/assign-agent:
\* each loads the order outside any transaction, answers early or assigns
\* paths of the loaded document, and saves it.
Agents == {"a1", "a2"}                \* users of role delivery-agent
NotAnAgent == "u1"                    \* a user of another role
Admin == [role |-> "admin", id |-> "admin"]
Actors == {Admin} \cup [role : {"delivery-agent"}, id : Agents]
Times == {"t1", "t2"}                 \* values of Date.now()
StatusInputs == OrderStatuses \cup {"Shipped", Undefined}
AgentStatuses == {"Out for Delivery", "Delivered", "Cancelled"}

\* A save that writes every path of the document, not only the modified ones.
ModifiedPathsAll(loaded, order) == OrderPaths

\* The paths Mongoose holds modified: those assigned a value other than the
\* loaded one.
ModifiedPaths(loaded, order) == {f \in OrderPaths : order[f] # loaded[f]}

\* What a handler holds between loading a document (loaded) and saving it
\* as its assignments left it (order): the $set of the modified paths, and
\* whether the document is valid and its status differs from the loaded one.
Loaded(route, actor, id, loaded, order) ==
    [kind |-> "save", route |-> route, actor |-> actor, orderId |-> id,
     set |-> [f \in ModifiedPaths(loaded, order) |-> order[f]],
     valid |-> OrderValid(order),
     statusChanged |-> order.orderStatus # loaded.orderStatus,
     items |-> <<>>, idx |-> 1, writes |-> {}, stale |-> {}]

\* order.orderStatus = orderStatus and the deliveredAt handling that follows.
SetStatus(order, orderStatus, now) ==
    [order EXCEPT
        !.orderStatus = orderStatus,
        !.deliveredAt = IF orderStatus = "Delivered" /\ @ = Undefined THEN now
                        ELSE IF orderStatus # "Delivered" /\ @ # Undefined THEN Undefined
                        ELSE @]

\* The delivery agent's authorization test of the status route.
NotAssignedTo(order, actor) ==
    order.deliveryAgent = Null \/ order.deliveryAgent # actor.id

\* PUT /:id/status up to order.save().
UpdateOrderStatus(r) ==
    /\ Idle(r)
    /\ nupdates < MaxUpdates
    /\ nupdates' = nupdates + 1
    /\ \E actor \in Actors, id \in 1..(Len(orders) + 1), orderStatus \in StatusInputs :
         IF id \notin 1..Len(orders)
         THEN /\ resp' = [resp EXCEPT ![r] = Resp(404, "NotFound")]
              /\ UNCHANGED <<pc, txn>>
         ELSE IF actor.role = "delivery-agent" /\ NotAssignedTo(orders[id], actor)
         THEN /\ resp' = [resp EXCEPT ![r] = Resp(403, "Forbidden")]
              /\ UNCHANGED <<pc, txn>>
         ELSE IF orderStatus \notin OrderStatuses
         THEN /\ resp' = [resp EXCEPT ![r] = Resp(400, "InvalidStatus")]
              /\ UNCHANGED <<pc, txn>>
         ELSE /\ pc' = [pc EXCEPT ![r] = "save"]
              /\ \E now \in Times :
                    txn' = [txn EXCEPT ![r] =
                              Loaded("status", actor, id, orders[id],
                                     SetStatus(orders[id], orderStatus, now))]
              /\ resp' = [resp EXCEPT ![r] = NoResp]
    /\ UNCHANGED <<products, orders, nedits, intents>>

\* order.assignedTo: orderSchema has no such path, so the loaded document
\* never shows one.
AssignedTo(order) ==
    IF "assignedTo" \in DOMAIN order THEN order.assignedTo ELSE Undefined

\* PUT /:id/status of the later revision, up to order.save().  The admin's
\* order.assignedTo = assignedTo sets no path of the schema.
UpdateOrderStatusNotify(r) ==
    /\ Idle(r)
    /\ nupdates < MaxUpdates
    /\ nupdates' = nupdates + 1
    /\ \E actor \in Actors, id \in 1..(Len(orders) + 1), orderStatus \in StatusInputs :
         IF id \notin 1..Len(orders)
         THEN /\ resp' = [resp EXCEPT ![r] = Resp(404, "NotFound")]
              /\ UNCHANGED <<pc, txn>>
         ELSE IF actor.role = "admin"
         THEN /\ pc' = [pc EXCEPT ![r] = "save"]
              /\ txn' = [txn EXCEPT ![r] =
                           Loaded("statusNotify", actor, id, orders[id],
                                  [orders[id] EXCEPT !.orderStatus =
                                      IF orderStatus # Undefined THEN orderStatus ELSE @])]
              /\ resp' = [resp EXCEPT ![r] = NoResp]
         ELSE IF AssignedTo(orders[id]) # Undefined /\ AssignedTo(orders[id]) # actor.id
         THEN /\ resp' = [resp EXCEPT ![r] = Resp(403, "Forbidden")]
              /\ UNCHANGED <<pc, txn>>
         ELSE IF orderStatus \notin AgentStatuses
         THEN /\ resp' = [resp EXCEPT ![r] = Resp(400, "AgentStatus")]
              /\ UNCHANGED <<pc, txn>>
         ELSE /\ pc' = [pc EXCEPT ![r] = "save"]
              /\ txn' = [txn EXCEPT ![r] =
                           Loaded("statusNotify", actor, id, orders[id],
                                  [orders[id] EXCEPT !.orderStatus = orderStatus])]
              /\ resp' = [resp EXCEPT ![r] = NoResp]
    /\ UNCHANGED <<products, orders, nedits, intents>>

\* PUT /:id/accept up to order.save().
AcceptOrder(r) ==
    /\ Idle(r)
    /\ nupdates < MaxUpdates
    /\ nupdates' = nupdates + 1
    /\ \E agent \in Agents, id \in 1..(Len(orders) + 1) :
         IF id \notin 1..Len(orders)
         THEN /\ resp' = [resp EXCEPT ![r] = Resp(404, "NotFound")]
              /\ UNCHANGED <<pc, txn>>
         ELSE IF orders[id].orderStatus \notin {"Pending", "Processing"}
         THEN /\ resp' = [resp EXCEPT ![r] = Resp(400, "CannotAccept")]
              /\ UNCHANGED <<pc, txn>>
         ELSE IF orders[id].deliveryAgent # Null
         THEN /\ resp' = [resp EXCEPT ![r] = Resp(400, "AlreadyAssigned")]
              /\ UNCHANGED <<pc, txn>>
         ELSE /\ pc' = [pc EXCEPT ![r] = "save"]
              /\ txn' = [txn EXCEPT ![r] =
                           Loaded("accept", [role |-> "delivery-agent", id |-> agent],
                                  id, orders[id],
                                  [orders[id] EXCEPT !.deliveryAgent = agent,
                                                     !.orderStatus = "Out for Delivery"])]
              /\ resp' = [resp EXCEPT ![r] = NoResp]
    /\ UNCHANGED <<products, orders, nedits, intents>>

\* PUT /:id/assign-agent up to order.save().
AssignAgent(r) ==
    /\ Idle(r)
    /\ nupdates < MaxUpdates
    /\ nupdates' = nupdates + 1
    /\ \E id \in 1..(Len(orders) + 1), deliveryAgentId \in Agents \cup {NotAnAgent} :
         IF id \notin 1..Len(orders)
         THEN /\ resp' = [resp EXCEPT ![r] = Resp(404, "NotFound")]
              /\ UNCHANGED <<pc, txn>>
         ELSE IF deliveryAgentId \notin Agents
         THEN /\ resp' = [resp EXCEPT ![r] = Resp(400, "InvalidAgent")]
              /\ UNCHANGED <<pc, txn>>
         ELSE /\ pc' = [pc EXCEPT ![r] = "save"]
              /\ txn' = [txn EXCEPT ![r] =
                           Loaded("assign", Admin, id, orders[id],
                                  [orders[id] EXCEPT !.deliveryAgent = deliveryAgentId])]
              /\ resp' = [resp EXCEPT ![r] = NoResp]
    /\ UNCHANGED <<products, orders, nedits, intents>>

\* Notifications the handler sends after the save: the later status route
\* mails the customer when the saved status differs from the loaded one.
Notifications(t) ==
    IF t.route = "statusNotify" /\ t.statusChanged THEN 1 ELSE 0

\* A save that returns the quantities of a cancelled order to stock.
SaveOrderRestock(r) ==
    /\ pc[r] = "save"
    /\ LET t == txn[r]
           paths == DOMAIN t.set
           cancels == "orderStatus" \in paths /\ t.set.orderStatus = "Cancelled"
       IN /\ \A q \in Requests : Open(q) => OrderKey(t.orderId) \notin txn[q].writes
          /\ IF ~t.valid
             THEN /\ resp' = [resp EXCEPT ![r] = Resp(500, "ServerError")]
                  /\ txn' = [txn EXCEPT ![r] = NoTxn]
                  /\ UNCHANGED <<orders, products>>
             ELSE /\ orders' = [orders EXCEPT ![t.orderId] =
                                  [f \in OrderPaths |->
                                      IF f \in paths THEN t.set[f] ELSE @[f]]]
                  /\ products' =
                        [p \in Products |->
                            IF cancels
                            THEN [products[p] EXCEPT !.stockQuantity =
                                     @ + SumSeq([i \in 1..Len(orders[t.orderId].orderItems) |->
                                                   IF orders[t.orderId].orderItems[i].product = p
                                                   THEN orders[t.orderId].orderItems[i].quantity
                                                   ELSE 0])]
                            ELSE products[p]]
                  /\ txn' = [MarkStale(txn, r, IF paths = {} THEN {} ELSE {OrderKey(t.orderId)})
                                EXCEPT ![r] = NoTxn]
                  /\ resp' = [resp EXCEPT ![r] =
                                RespAbout(200, "Updated", Undefined, Notifications(t))]
    /\ pc' = [pc EXCEPT ![r] = "idle"]
    /\ UNCHANGED <<nedits, nupdates, intents>>

\* order.save() of a lifecycle route and the response: a $set of the
\* modified paths, outside any transaction.  It waits while a transaction
\* holds the order uncommitted; a validation error is answered 500.  n is
\* the number of notifications sent.
SaveOrder(r) ==
    /\ pc[r] = "save"
    /\ LET t == txn[r]
           paths == DOMAIN t.set
       IN /\ \A q \in Requests : Open(q) => OrderKey(t.orderId) \notin txn[q].writes
          /\ IF ~t.valid
             THEN /\ resp' = [resp EXCEPT ![r] = Resp(500, "ServerError")]
                  /\ txn' = [txn EXCEPT ![r] = NoTxn]
                  /\ UNCHANGED orders
             ELSE /\ orders' = [orders EXCEPT ![t.orderId] =
                                  [f \in OrderPaths |->
                                      IF f \in paths THEN t.set[f] ELSE @[f]]]
                  /\ txn' = [MarkStale(txn, r, IF paths = {} THEN {} ELSE {OrderKey(t.orderId)})
                                EXCEPT ![r] = NoTxn]
                  /\ resp' = [resp EXCEPT ![r] =
                                RespAbout(200, "Updated", Undefined, Notifications(t))]
    /\ pc' = [pc EXCEPT ![r] = "idle"]
    /\ UNCHANGED <<products, nedits, nupdates, intents>>

\* ------------------------------------------------------------ POST /api/payments/create-payment-intent
\* Every order of the model is committed by Customer; OtherUser is another
\* authenticated user.
Customer == "c1"
OtherUser == "c2"
Users == {Customer, OtherUser}

\* order.user, set to req.user._id when the order is committed.
OrderUser(order) == Customer

\* Intents the provider has not created yet, and requests about to create one.
UnusedIntents == {pi \in PaymentIntents : intents[pi].order = 0}
CreatingIntent == {q \in Requests : pc[q] = "createIntent"}

\* if (order.isPaid) of create-payment-intent
OrderIsPaid(order) == order.isPaid

\* The handler up to stripe.paymentIntents.create: the order is loaded, and
\* an unknown order, another user's order and a paid order are refused.
CreatePaymentIntent(r) ==
    /\ Idle(r)
    /\ nupdates < MaxUpdates
    /\ Cardinality(UnusedIntents) > Cardinality(CreatingIntent)
    /\ nupdates' = nupdates + 1
    /\ \E user \in Users, orderId \in 1..(Len(orders) + 1) :
         IF orderId \notin 1..Len(orders)
         THEN /\ resp' = [resp EXCEPT ![r] = Resp(404, "NotFound")]
              /\ UNCHANGED <<pc, txn>>
         ELSE IF OrderUser(orders[orderId]) # user
         THEN /\ resp' = [resp EXCEPT ![r] = Resp(403, "Forbidden")]
              /\ UNCHANGED <<pc, txn>>
         ELSE IF OrderIsPaid(orders[orderId])
         THEN /\ resp' = [resp EXCEPT ![r] = Resp(400, "AlreadyPaid")]
              /\ UNCHANGED <<pc, txn>>
         ELSE /\ pc' = [pc EXCEPT ![r] = "createIntent"]
              /\ txn' = [txn EXCEPT ![r] =
                           [kind |-> "intent", orderId |-> orderId,
                            items |-> <<>>, idx |-> 1, writes |-> {}, stale |-> {}]]
              /\ resp' = [resp EXCEPT ![r] = NoResp]
    /\ UNCHANGED <<products, orders, nedits, intents>>

\* stripe.paymentIntents.create with metadata.order_id, and the response
\* with the client secret: the provider holds a new intent for the order.
\* Intents are interchangeable: the provider hands out the first unused one.
StripeCreate(r) ==
    /\ pc[r] = "createIntent"
    /\ LET pi == IF "pi1" \in UnusedIntents THEN "pi1" ELSE "pi2" IN
       /\ pi \in UnusedIntents
       /\ intents' = [intents EXCEPT ![pi] = [order |-> txn[r].orderId, paid |-> FALSE]]
    /\ resp' = [resp EXCEPT ![r] = RespAbout(200, "ClientSecret", Undefined, txn[r].orderId)]
    /\ pc' = [pc EXCEPT ![r] = "idle"]
    /\ txn' = [txn EXCEPT ![r] = NoTxn]
    /\ UNCHANGED <<products, orders, nedits, nupdates>>

\* The customer confirms an intent with its client secret and the provider
\* collects the payment.
CustomerPays ==
    /\ \E pi \in PaymentIntents :
          /\ intents[pi].order # 0
          /\ ~intents[pi].paid
          /\ intents' = [intents EXCEPT ![pi].paid = TRUE]
    /\ UNCHANGED <<products, orders, pc, txn, resp, nedits, nupdates>>

\* ------------------------------------------------------------ specifications
\* Commitments and payment reconciliations, two requests at a time.
Next ==
    \E r \in Requests :
        \/ CreateOrder(r)
        \/ CreateOrderDecrement(r)
        \/ CreateOrderCommit(r)
        \/ Webhook(r)
        \/ WebhookReduceStock(r)
        \/ WebhookSaveOrder(r)
        \/ WebhookCommit(r)

\* One commitment at a time, against catalog edits.
NextCatalog ==
    \/ CreateOrder(1)
    \/ CreateOrderDecrement(1)
    \/ CreateOrderCommit(1)
    \/ UpdateProductRoute

\* The catalog after the decrement loop has run over the lines items.
RECURSIVE DecrementAll(_, _)
DecrementAll(prods, items) ==
    IF items = <<>> THEN prods
    ELSE DecrementAll([prods EXCEPT ![Head(items).product] = DecrementStock(@, Head(items))],
                      Tail(items))

\* Carts of the commitment that precedes the lifecycle: one unit of P1, alone
\* or with one unit of P2, at the catalog's prices.
SeedLine(p) == [product |-> p, name |-> ClientName, price |-> InitPrice[p], quantity |-> 1]
SeedCarts == {<<SeedLine("P1")>>, <<SeedLine("P1"), SeedLine("P2")>>}

\* The store after one commitment of a seed cart has committed, no request
\* in flight.
InitLifecycle ==
    /\ \E cart \in SeedCarts :
          LET v == ValidateCart(InitProducts, cart) IN
          /\ products = DecrementAll(InitProducts, v.items)
          /\ orders = <<NewOrder(OrderObject(v.items, "card"))>>
    /\ pc = [r \in Requests |-> "idle"]
    /\ txn = [r \in Requests |-> NoTxn]
    /\ resp = [r \in Requests |-> NoResp]
    /\ nedits = 0
    /\ nupdates = 0
    /\ intents = NoIntents

\* Payment reconciliations against the lifecycle routes and payment-intent
\* creation, two requests at a time, over the store one commitment leaves.
NextLifecycle ==
    \E r \in Requests :
        \/ Webhook(r)
        \/ WebhookReduceStock(r)
        \/ WebhookSaveOrder(r)
        \/ WebhookCommit(r)
        \/ UpdateOrderStatus(r)
        \/ UpdateOrderStatusNotify(r)
        \/ AcceptOrder(r)
        \/ AssignAgent(r)
        \/ SaveOrder(r)
        \/ CreatePaymentIntent(r)
        \/ StripeCreate(r)

\* Payment-intent creations, the customer's payments and webhook deliveries,
\* two requests at a time, over the store one commitment leaves.
NextPayment ==
    \/ \E r \in Requests :
          \/ CreatePaymentIntent(r)
          \/ StripeCreate(r)
          \/ Webhook(r)
          \/ WebhookReduceStock(r)
          \/ WebhookSaveOrder(r)
          \/ WebhookCommit(r)
    \/ CustomerPays

Spec == Init /\ [][Next]_vars
SpecPayment == InitLifecycle /\ [][NextPayment]_vars
SpecLifecycle == InitLifecycle /\ [][NextLifecycle]_vars
SpecCatalog == Init /\ [][NextCatalog]_vars

\* The steps of a request in flight: each is the continuation of an awaited
\* database call, which the event loop runs once the call has returned.
Continue(r) ==
    \/ CreateOrderDecrement(r)
    \/ CreateOrderCommit(r)
    \/ WebhookReduceStock(r)
    \/ WebhookSaveOrder(r)
    \/ WebhookCommit(r)

\* Commitments and reconciliations whose requests in flight are each carried on.
SpecLive == Spec /\ \A r \in Requests : WF_vars(Continue(r))

\* ------------------------------------------------------------ claims
\* Quantity of product p on the lines items.
QuantityOf(items, p) ==
    SumSeq([i \in 1..Len(items) |-> IF items[i].product = p THEN items[i].quantity ELSE 0])

\* Quantity of product p on the lines of all orders of the ledger.
RECURSIVE OrderedQuantity(_, _)
OrderedQuantity(os, p) ==
    IF os = <<>> THEN 0
    ELSE QuantityOf(Head(os).orderItems, p) + OrderedQuantity(Tail(os), p)

\* The open commitment of r is a single line for all the stock of p that its
\* snapshot showed.
RequestsAllStock(r, p) ==
    /\ txn[r].kind = "order"
    /\ Len(txn[r].items) = 1
    /\ txn[r].items[1].product = p
    /\ txn[r].view[p].stockQuantity =
          IF ProductKey(p) \in txn[r].writes THEN 0 ELSE txn[r].items[1].quantity

\* C1: when two commitments run concurrently, each for all the remaining
\* stock of the same product, the one that ends either succeeds, creating an
\* Order and leaving stock 0, or fails with InsufficientStock and creates
\* nothing.
C1_LastUnitRace ==
    [][\A r \in Requests, q \in Requests, p \in Products :
          (/\ r # q
           /\ RequestsAllStock(r, p)
           /\ RequestsAllStock(q, p)
           /\ pc'[r] = "idle")
          => \/ /\ resp'[r].status = 201
                /\ Len(orders') = Len(orders) + 1
                /\ products'[p].stockQuantity = 0
             \/ /\ resp'[r].kind = "InsufficientStock"
                /\ UNCHANGED <<products, orders>>]_vars

\* C2: in every reachable state every product's stockQuantity is an integer
\* not below zero.
C2_StockNeverNegative ==
    \A p \in Products : products[p].stockQuantity \in Nat

\* C2 witness: a commitment and a reconciliation have both taken from the
\* stock of a product, down to zero.
C2_Witness ==
    \E p \in Products, i \in 1..Len(orders) :
        /\ products[p].stockQuantity = 0
        /\ orders[i].isPaid
        /\ QuantityOf(orders[i].orderItems, p) > 0

\* C3: over commitment and payment each product's stock drops by the ordered
\* quantity exactly once: stock is what it was at the start less the
\* quantities on the ledger's order lines.
C3_StockDecrementedOnce ==
    \A p \in Products :
        products[p].stockQuantity = InitStockOf[p] - OrderedQuantity(orders, p)

\* The step is taken by the handler of slot r.
StepOf(r) ==
    \/ pc'[r] # pc[r]
    \/ resp'[r] # resp[r]
    \/ (txn[r].kind # "none" /\ txn'[r].kind # "none" /\ txn'[r].idx # txn[r].idx)

\* Errors a commitment answers.
CommitmentErrors == {"ProductNotFound", "PriceMismatch", "InsufficientStock",
                     "ValidationError", "ServerError"}

\* The step is one of r's commitment and ends it with an error.
CommitmentFails(r) ==
    /\ StepOf(r)
    /\ pc[r] = "idle" \/ txn[r].kind = "order"
    /\ resp'[r].kind \in CommitmentErrors

\* The step is one of r's commitment before its transaction commits.
CommitmentBeforeCommit(r) ==
    /\ StepOf(r)
    /\ \/ pc[r] = "idle" /\ pc'[r] = "decrement"
       \/ pc[r] = "decrement"

\* The step commits r's commitment.
CommitmentCommits(r) == pc[r] = "commit" /\ pc'[r] = "idle"

\* C4: a commitment that fails, at whatever step, has no partial effect: the
\* failing step ends the transaction with nothing left of it, and neither
\* that step nor any step of the commitment before it changes a product or
\* the ledger, so no Order exists for the request and every stockQuantity is
\* as the request found it.
C4_FailedCommitmentNoEffect ==
    [][\A r \in Requests :
          /\ CommitmentFails(r)
                => /\ UNCHANGED <<products, orders>>
                   /\ pc'[r] = "idle"
                   /\ txn'[r] = NoTxn
          /\ CommitmentBeforeCommit(r) => UNCHANGED <<products, orders>>]_vars

\* C4 witness: a commitment failed on saving a product, after its order was
\* saved in the transaction, and the store is as it was at the start.
C4_Witness ==
    \E r \in Requests :
        /\ resp[r].kind = "ServerError"
        /\ pc[r] = "idle"
        /\ orders = <<>>
        /\ \A p \in Products : products[p].stockQuantity = InitStockOf[p]

\* C5: a commitment that succeeds adds exactly one Order to the ledger,
\* answers 201, and takes from each product exactly the quantity of the
\* order's lines of that product, leaving every other product as it was.
C5_SuccessfulCommitment ==
    [][\A r \in Requests :
          CommitmentCommits(r)
             => /\ resp'[r].status = 201
                /\ Len(orders') = Len(orders) + 1
                /\ SubSeq(orders', 1, Len(orders)) = orders
                /\ \A p \in Products :
                      products'[p] =
                         [products[p] EXCEPT !.stockQuantity =
                             @ - QuantityOf(orders'[Len(orders')].orderItems, p)]]_vars

\* C5 witness: an order of two units of P1 was committed and P1's stock is
\* two less than at the start, P2's untouched.
C5_Witness ==
    \E r \in Requests :
        /\ resp[r].status = 201
        /\ Len(orders) = 1
        /\ QuantityOf(orders[1].orderItems, "P1") = 2
        /\ QuantityOf(orders[1].orderItems, "P2") = 0
        /\ ~orders[1].isPaid
        /\ products["P1"].stockQuantity = InitStockOf["P1"] - 2
        /\ products["P2"].stockQuantity = InitStockOf["P2"]

\* What a cart line is against the catalog, stated without the handler's
\* own comparisons.
LineMissing(view, item) == item.product \notin DOMAIN view
LineMismatch(view, item) ==
    item.product \in DOMAIN view /\ view[item.product].price # item.price
LineShort(view, item) ==
    item.product \in DOMAIN view /\ view[item.product].stockQuantity < item.quantity
LineBad(view, item) ==
    LineMissing(view, item) \/ LineMismatch(view, item) \/ LineShort(view, item)

\* The first line of the cart that is missing, mismatching or short.
FirstBad(view, cart) ==
    CHOOSE i \in 1..Len(cart) :
        LineBad(view, cart[i]) /\ \A j \in 1..(i - 1) : ~LineBad(view, cart[j])

\* The answer the first bad line of the cart calls for: not found, else price
\* mismatch, else insufficient stock naming the product and what is available.
FirstBadAnswer(view, cart) ==
    LET item == cart[FirstBad(view, cart)] IN
    IF LineMissing(view, item) THEN RespAbout(404, "ProductNotFound", item.name, 0)
    ELSE IF LineMismatch(view, item)
    THEN RespAbout(400, "PriceMismatch", view[item.product].name, view[item.product].price)
    ELSE RespAbout(400, "InsufficientStock", view[item.product].name,
                   view[item.product].stockQuantity)

\* C6 as stated: a cart with a line whose claimed price differs from the
\* product's current price is answered PriceMismatch, whatever its other lines.
C6_AlwaysPriceMismatch ==
    \A cart \in Carts :
        (\E i \in 1..Len(cart) : LineMismatch(products, cart[i]))
            => ValidateCart(products, cart).resp.kind = "PriceMismatch"

\* C6 amended: a cart with a line whose claimed price differs from the
\* product's current price is always refused, with the answer of its first
\* bad line: PriceMismatch when that line's price differs, ProductNotFound or
\* InsufficientStock when an earlier line is missing or short; and a
\* commitment answered PriceMismatch creates no Order, changes no product and
\* leaves no transaction open.
C6_PriceMismatchRefused ==
    /\ [](\A cart \in Carts :
            (\E i \in 1..Len(cart) : LineMismatch(products, cart[i]))
               => LET v == ValidateCart(products, cart) IN
                  /\ ~v.ok
                  /\ v.items = <<>>
                  /\ v.resp = FirstBadAnswer(products, cart))
    /\ [][\A r \in Requests :
            (StepOf(r) /\ resp'[r].kind = "PriceMismatch")
               => /\ UNCHANGED <<products, orders>>
                  /\ pc'[r] = "idle"
                  /\ txn'[r] = NoTxn]_vars

\* C6 witness: a commitment was answered PriceMismatch after a catalog edit
\* changed the price, with the ledger empty and every stock as at the start.
C6_Witness ==
    /\ resp[1].kind = "PriceMismatch"
    /\ \E p \in Products : products[p].price # InitPrice[p] /\ resp[1].product = products[p].name
    /\ orders = <<>>
    /\ \A p \in Products : products[p].stockQuantity = InitStockOf[p]

C8_StoredPrices ==
    \A i \in 1..Len(orders) :
        LET o == orders[i] IN
        /\ "itemsPrice" \in DOMAIN o
        /\ o.itemsPrice = CalculatedItemsPrice(o.orderItems)
        /\ o.taxPrice = ToFixed2(o.itemsPrice * TAX_RATE_PERCENT)
        /\ o.shippingPrice = SHIPPING_COST
        /\ o.totalPrice = o.itemsPrice + o.taxPrice + o.shippingPrice

\* C9: the Order a commitment adds to the ledger is Pending, unpaid and has no
\* delivery agent, and each of its lines carries the name and the price the
\* product has in the catalog when the commitment commits, not the name the
\* client sent.
C9_NewOrderSnapshot ==
    [][\A r \in Requests :
          CommitmentCommits(r)
             => LET o == orders'[Len(orders')] IN
                /\ o.orderStatus = "Pending"
                /\ o.isPaid = FALSE
                /\ o.deliveryAgent = Null
                /\ \A j \in 1..Len(o.orderItems) :
                      /\ o.orderItems[j].name = products[o.orderItems[j].product].name
                      /\ o.orderItems[j].price = products[o.orderItems[j].product].price
                      /\ o.orderItems[j].name # ClientName]_vars

\* C9 witness: after a catalog edit renamed a product and changed its price,
\* a commitment created a Pending, unpaid, unassigned order whose line
\* carries the new name and the new price.
C9_Witness ==
    /\ Len(orders) = 1
    /\ orders[1].orderStatus = "Pending"
    /\ ~orders[1].isPaid
    /\ orders[1].deliveryAgent = Null
    /\ \E j \in 1..Len(orders[1].orderItems) :
          LET line == orders[1].orderItems[j] IN
          /\ line.name = "Butter"
          /\ line.price # InitPrice[line.product]
          /\ line.name = products[line.product].name
          /\ line.price = products[line.product].price

\* C10: a step that changes the name or the price of a product leaves every
\* order of the ledger with the lines, the taxPrice, the shippingPrice and
\* the totalPrice it had.
C10_CatalogEditKeepsOrders ==
    [][(\E p \in Products : \/ products'[p].name # products[p].name
                            \/ products'[p].price # products[p].price)
          => /\ Len(orders') = Len(orders)
             /\ \A i \in 1..Len(orders) :
                   /\ orders'[i].orderItems = orders[i].orderItems
                   /\ orders'[i].taxPrice = orders[i].taxPrice
                   /\ orders'[i].shippingPrice = orders[i].shippingPrice
                   /\ orders'[i].totalPrice = orders[i].totalPrice]_vars

\* C10 witness: the catalog's name and price of a product differ from those
\* on the line of a committed order, whose totals are those of its lines.
C10_Witness ==
    /\ nedits > 0
    /\ \E i \in 1..Len(orders) : \E j \in 1..Len(orders[i].orderItems) :
          LET line == orders[i].orderItems[j] IN
          /\ line.name # products[line.product].name
          /\ line.price # products[line.product].price
          /\ orders[i].totalPrice =
                CalculatedItemsPrice(orders[i].orderItems) + orders[i].taxPrice
                + orders[i].shippingPrice

\* C11: a webhook request whose signature does not verify is answered with
\* an error and touches nothing: no transaction is ever opened for an event
\* of invalid signature, and the step that answers the error leaves every
\* order, every product and every transaction as it was.
C11_BadSignatureRejected ==
    /\ [](\A r \in Requests : txn[r].kind = "webhook" => txn[r].event.signatureValid)
    /\ [][\A r \in Requests :
            (StepOf(r) /\ resp'[r].kind = "WebhookError")
               => /\ resp'[r].status = 400
                  /\ UNCHANGED <<products, orders, pc, txn>>]_vars

\* C11 witness: a request was answered WebhookError while an order awaits
\* payment, which is still Pending and unpaid.
C11_Witness ==
    \E r \in Requests :
        /\ resp[r].kind = "WebhookError"
        /\ Len(orders) = 1
        /\ ~orders[1].isPaid
        /\ orders[1].orderStatus = "Pending"
        /\ orders[1].paymentResult = NoPaymentResult

\* C12: a payment-succeeded delivery for an order already marked paid is
\* acknowledged with 200 and changes nothing: no transaction is opened for an
\* order that is paid, and the step that acknowledges the duplicate leaves
\* every order (isPaid, paidAt, paymentResult, orderStatus) and every
\* product's stock as it was.
C12_DuplicateDeliveryNoEffect ==
    [][\A r \in Requests :
          /\ (txn[r].kind # "webhook" /\ txn'[r].kind = "webhook")
                => ~orders[txn'[r].orderId].isPaid
          /\ (StepOf(r) /\ resp'[r].kind = "Duplicate")
                => /\ resp'[r].status = 200
                   /\ orders[resp'[r].n].isPaid
                   /\ UNCHANGED <<products, orders, pc, txn>>]_vars

\* C12 witness: a second delivery for a paid order was acknowledged as a
\* duplicate; the order is paid and Processing and its product's stock is
\* what the commitment and the first delivery left.
C12_Witness ==
    \E r \in Requests :
        /\ resp[r].kind = "Duplicate"
        /\ resp[r].n = 1
        /\ orders[1].isPaid
        /\ orders[1].orderStatus = "Processing"
        /\ \A p \in Products :
              products[p].stockQuantity =
                 InitStockOf[p] - 2 * QuantityOf(orders[1].orderItems, p)

\* Quantity of product p on the lines of the paid orders of the ledger.
RECURSIVE PaidQuantity(_, _)
PaidQuantity(os, p) ==
    IF os = <<>> THEN 0
    ELSE (IF Head(os).isPaid THEN QuantityOf(Head(os).orderItems, p) ELSE 0)
         + PaidQuantity(Tail(os), p)

\* Two payment deliveries for the same order are in flight.
SameOrderDeliveries(r, q) ==
    /\ r # q
    /\ txn[r].kind = "webhook"
    /\ txn[q].kind = "webhook"
    /\ txn[r].orderId = txn[q].orderId

\* C13: of two payment-succeeded deliveries for the same unpaid order that
\* run concurrently at most one applies: reconciliation takes an order's
\* lines from stock once per paid order, the paidAt and paymentResult of a
\* paid order are never written again, and when one of the two ends it
\* either commits, dooming the other to a write conflict, or is refused
\* with an error and changes nothing.
C13_ConcurrentDeliveriesOnce ==
    /\ [](\A p \in Products :
            products[p].stockQuantity =
               InitStockOf[p] - OrderedQuantity(orders, p) - PaidQuantity(orders, p))
    /\ [][\A i \in 1..Len(orders) :
            orders[i].isPaid
               => /\ orders'[i].paidAt = orders[i].paidAt
                  /\ orders'[i].paymentResult = orders[i].paymentResult]_vars
    /\ [][\A r \in Requests, q \in Requests :
            (SameOrderDeliveries(r, q) /\ pc'[r] = "idle")
               => \/ /\ resp'[r] = RespAbout(200, "received", Undefined, txn[r].orderId)
                     /\ OrderKey(txn[q].orderId) \in txn'[q].stale
                  \/ /\ resp'[r].status \in {409, 500}
                     /\ UNCHANGED <<products, orders>>]_vars

\* C13 witness: of two concurrent deliveries one was acknowledged and the
\* other failed on the conflict; the order carries one payment.
C13_Witness ==
    \E r \in Requests, q \in Requests :
        /\ resp[r] = RespAbout(200, "received", Undefined, 1)
        /\ resp[q].kind = "TransactionFailed"
        /\ orders[1].isPaid
        /\ products["P1"].stockQuantity =
              InitStockOf["P1"] - 2 * QuantityOf(orders[1].orderItems, "P1")

\* C14: isPaid is monotonic and the payment fields are set once: no step of
\* a reconciliation, a status update, an acceptance or an assignment makes a
\* paid order unpaid or changes the paidAt or the paymentResult of a paid
\* order.
C14_PaidOnce ==
    [][\A i \in 1..Len(orders) :
          orders[i].isPaid
             => /\ orders'[i].isPaid
                /\ orders'[i].paidAt = orders[i].paidAt
                /\ orders'[i].paymentResult = orders[i].paymentResult]_vars

\* C14 witness: an order was paid, and an agent's acceptance and a status
\* update were saved on it; it still carries its payment.
C14_Witness ==
    /\ orders[1].isPaid
    /\ orders[1].paidAt = CreatedAt(orders[1].paymentResult.id)
    /\ orders[1].deliveryAgent \in Agents
    /\ orders[1].orderStatus = "Delivered"

\* C15: a reconciliation that commits leaves the order paid, with paidAt and
\* paymentResult set, and moves its orderStatus from Pending to Processing,
\* the only status change a reconciliation makes.
C15_PendingToProcessing ==
    [][\A r \in Requests :
          (pc[r] = "commitPaid" /\ pc'[r] = "idle")
             => LET i == txn[r].orderId IN
                /\ orders'[i].isPaid
                /\ orders'[i].paidAt # Undefined
                /\ orders'[i].paymentResult # NoPaymentResult
                /\ orders'[i].orderStatus = "Processing"
                /\ orders'[i].orderStatus # orders[i].orderStatus
                      => orders[i].orderStatus = "Pending"]_vars

\* C16: a payment-succeeded event without order identifier, or whose
\* identifier is that of no order, is acknowledged with 200 and changes no
\* state.
C16_UnprocessableAcknowledged ==
    [][\A r \in Requests :
          (StepOf(r) /\ resp'[r].kind \in {"NoOrderId", "OrderNotFound"})
             => /\ resp'[r].status = 200
                /\ UNCHANGED <<products, orders>>]_vars

\* C17: when a reconciliation comes to a line whose quantity is above the
\* product's stock, that step fails it: the answer is 409 and no
\* acknowledgement, the transaction is gone with the decrements of the
\* earlier lines, and the order and every product are as they were.
C17_ShortStockFailsReconciliation ==
    [][\A r \in Requests :
          (/\ pc[r] = "reduceStock"
           /\ StepOf(r)
           /\ LineShort(txn[r].view, txn[r].items[txn[r].idx]))
             => /\ resp'[r].status = 409
                /\ resp'[r].kind = "Conflict"
                /\ pc'[r] = "idle"
                /\ txn'[r] = NoTxn
                /\ UNCHANGED <<products, orders>>
                /\ ~orders[txn[r].orderId].isPaid]_vars

\* C17 witness: a reconciliation was refused for its second line, Bread,
\* after its first line was decremented in the transaction; the order is
\* unpaid and Pending and P1's stock is what the commitment left.
C17_Witness ==
    \E r \in Requests :
        /\ resp[r].kind = "Conflict"
        /\ resp[r].product = "Bread"
        /\ Len(orders[1].orderItems) = 2
        /\ orders[1].orderItems[1].product = "P1"
        /\ products["P1"].stockQuantity =
              InitStockOf["P1"] - QuantityOf(orders[1].orderItems, "P1")
        /\ ~orders[1].isPaid
        /\ orders[1].orderStatus = "Pending"

\* C18: an event of another type than payment success is acknowledged with
\* 200 and changes nothing: no transaction is ever opened for such an event,
\* and the step that acknowledges it leaves every order, every product and
\* every transaction as it was, so the order stays unpaid and open to a
\* later payment success.
C18_OtherEventsIgnored ==
    /\ [](\A r \in Requests :
            txn[r].kind = "webhook" => txn[r].event.type = "payment_intent.succeeded")
    /\ [][\A r \in Requests :
            (StepOf(r) /\ resp'[r].kind = "Ignored")
               => /\ resp'[r].status = 200
                  /\ UNCHANGED <<products, orders, pc, txn>>]_vars

\* C18 witness: an event was acknowledged as ignored while another delivery,
\* a payment success, was in flight, and that delivery then marked the order
\* paid.
C18_Witness ==
    \E r \in Requests, q \in Requests :
        /\ resp[r].kind = "Ignored"
        /\ resp[q] = RespAbout(200, "received", Undefined, 1)
        /\ orders[1].isPaid

\* C19: no step changes the orderStatus of an order that is Delivered or
\* Cancelled.
C19_TerminalStatuses ==
    [][\A i \in 1..Len(orders) :
          orders[i].orderStatus \in {"Delivered", "Cancelled"}
             => orders'[i].orderStatus = orders[i].orderStatus]_vars

\* C20: a status update by a delivery agent gets as far as saving only on an
\* order assigned to that agent; on any other order it is answered 403 and
\* holds nothing to save.
C20_AgentMustBeAssigned ==
    [][\A r \in Requests :
          (/\ StepOf(r)
           /\ txn'[r].kind = "save"
           /\ txn[r].kind # "save"
           /\ txn'[r].route \in {"status", "statusNotify"}
           /\ txn'[r].actor.role = "delivery-agent")
             => orders[txn'[r].orderId].deliveryAgent = txn'[r].actor.id]_vars

\* A delivery agent's request on a status route starts a save.
AgentStatusSaveStarts(r) ==
    /\ StepOf(r)
    /\ txn[r].kind # "save"
    /\ txn'[r].kind = "save"
    /\ txn'[r].route \in {"status", "statusNotify"}
    /\ txn'[r].actor.role = "delivery-agent"

\* C21: a status update by a delivery agent sets orderStatus only to Out for
\* Delivery, Delivered or Cancelled: whenever an agent's status request goes
\* on to save an orderStatus, that status is one of the three.
C21_AgentStatusesOnly ==
    [][\A r \in Requests :
          (AgentStatusSaveStarts(r) /\ "orderStatus" \in DOMAIN txn'[r].set)
             => txn'[r].set.orderStatus \in AgentStatuses]_vars

\* C22: an order's delivery agent is assigned once and only by an admin:
\* every step that changes deliveryAgent changes it from unassigned, and is
\* the save of an admin's request on that order.
C22_AgentAssignedOnceByAdmin ==
    [][\A i \in 1..Len(orders) :
          orders'[i].deliveryAgent # orders[i].deliveryAgent
             => /\ orders[i].deliveryAgent = Null
                /\ \E r \in Requests :
                      /\ pc[r] = "save"
                      /\ pc'[r] = "idle"
                      /\ txn[r].orderId = i
                      /\ txn[r].actor.role = "admin"]_vars

\* C23: deliveredAt follows the Delivered state: an order has a deliveredAt
\* exactly when its orderStatus is Delivered, and no step changes the
\* deliveredAt of an order that is and stays Delivered.
C23_DeliveredAtFollowsDelivered ==
    /\ [](\A i \in 1..Len(orders) :
            (orders[i].deliveredAt # Undefined) <=> (orders[i].orderStatus = "Delivered"))
    /\ [][\A i \in 1..Len(orders) :
            (orders[i].orderStatus = "Delivered" /\ orders'[i].orderStatus = "Delivered")
               => orders'[i].deliveredAt = orders[i].deliveredAt]_vars

\* The step is a save on order i after which one notification is sent.
NotifiedSave(r, i) ==
    /\ pc[r] = "save"
    /\ pc'[r] = "idle"
    /\ txn[r].orderId = i
    /\ resp'[r].kind = "Updated"
    /\ resp'[r].n = 1

\* C24: a status-change notification is sent exactly when an order's
\* orderStatus changes value: a step changes the orderStatus of an order if
\* and only if it is a save on that order followed by one notification.
C24_NotifiedExactlyOnChange ==
    [][\A i \in 1..Len(orders) :
          (orders'[i].orderStatus # orders[i].orderStatus)
             <=> (\E r \in Requests : NotifiedSave(r, i))]_vars

\* The document the transaction of r writes at its next step.
NextWrite(r) ==
    IF pc[r] = "saveOrder" THEN OrderKey(txn[r].orderId)
    ELSE ProductKey(txn[r].items[txn[r].idx].product)

\* The step ends r's request at a write that conflicts with a concurrent
\* transaction.
EndsOnWriteConflict(r) ==
    /\ pc[r] \in {"decrement", "reduceStock", "saveOrder"}
    /\ pc'[r] = "idle"
    /\ WriteConflict(r, NextWrite(r))

\* Every request in flight comes to its response.
RequestsTerminate ==
    \A r \in Requests : (pc[r] # "idle") ~> (pc[r] = "idle")

\* C25: every commitment and reconciliation request terminates with a
\* response, and a request that ends on a write conflict with a concurrent
\* request answers a Conflict error.
C25_TerminatesWithConflict ==
    /\ RequestsTerminate
    /\ [][\A r \in Requests :
            EndsOnWriteConflict(r)
               => /\ resp'[r].status = 409
                  /\ resp'[r].kind = "Conflict"]_vars

\* C26: no transaction of a commitment is left open behind a response: a
\* slot holds a commitment's transaction only while its request is in
\* flight, and every step of a commitment that answers, an error or the 201,
\* leaves the slot without transaction.
C26_NoTransactionLeftOpen ==
    /\ [](\A r \in Requests :
            txn[r].kind = "order" => pc[r] \in {"decrement", "commit"})
    /\ [][\A r \in Requests :
            (CommitmentFails(r) \/ CommitmentCommits(r))
               => /\ txn'[r] = NoTxn
                  /\ pc'[r] = "idle"]_vars

\* C26 witness: a commitment was answered the server error of the catch
\* block after its transaction had started, while another commitment's
\* transaction holds its write; the answered slot holds no transaction.
C26_Witness ==
    \E r \in Requests, q \in Requests :
        /\ resp[r].kind = "ServerError"
        /\ pc[r] = "idle"
        /\ txn[r] = NoTxn
        /\ pc[q] = "commit"
        /\ txn[q].kind = "order"
        /\ txn[q].writes # {}

\* C27: no order is paid for twice: a payment intent is only created for an
\* order read as unpaid, and the provider never holds two paid intents for
\* the same order.
C27_NoDoublePayment ==
    /\ [](\A pi \in PaymentIntents, pj \in PaymentIntents :
            (/\ intents[pi].paid
             /\ intents[pj].paid
             /\ intents[pi].order = intents[pj].order) => pi = pj)
    /\ [][\A r \in Requests :
            (pc[r] = "idle" /\ pc'[r] = "createIntent")
               => ~orders[txn'[r].orderId].isPaid]_vars

\* The step is one of a status update, an acceptance, an assignment or a
\* payment-intent creation by slot r: the request's arrival or its save or
\* its call to the provider.
LifecycleStep(r) ==
    /\ StepOf(r)
    /\ \/ pc[r] \in {"save", "createIntent"}
       \/ pc'[r] \in {"save", "createIntent"}
       \/ nupdates' # nupdates

\* Paths of an order that no lifecycle route writes.
FramePaths == {"orderItems", "paymentMethod", "paymentResult", "taxPrice",
               "shippingPrice", "totalPrice", "isPaid", "paidAt"}

\* C28: no step of a status update, an acceptance, an assignment or a
\* payment-intent creation changes a product's stockQuantity or an order's
\* isPaid, paidAt, paymentResult, lines or prices; a save that sets
\* Cancelled among them, so a cancelled order's quantities stay out of stock.
C28_LifecycleFrame ==
    [][\A r \in Requests :
          LifecycleStep(r)
             => /\ products' = products
                /\ \/ orders' = orders
                   \/ /\ Len(orders') = Len(orders)
                      /\ \A i \in 1..Len(orders), f \in FramePaths :
                            orders'[i][f] = orders[i][f]]_vars

\* C28 witness: a payment intent was created for the order, the order was
\* paid and then saved as Cancelled; it is still paid, and P1's stock is
\* what the commitment and the reconciliation left.
C28_Witness ==
    /\ intents["pi1"].order = 1
    /\ orders[1].isPaid
    /\ orders[1].paidAt # Undefined
    /\ orders[1].orderStatus = "Cancelled"
    /\ products["P1"].stockQuantity =
          InitStockOf["P1"] - 2 * QuantityOf(orders[1].orderItems, "P1")

\* The step is the save of r's acceptance and answers success.
AcceptSucceeds(r) ==
    /\ pc[r] = "save"
    /\ pc'[r] = "idle"
    /\ txn[r].route = "accept"
    /\ resp'[r].status = 200

\* C29: an acceptance goes on to save only for an order it read as Pending
\* or Processing and without delivery agent; one that succeeds finds the
\* stored order assigned to no other agent and leaves it Out for Delivery
\* with the caller as deliveryAgent, so of two agents accepting one
\* unassigned order at most one succeeds.
C29_AcceptOnlyUnassigned ==
    /\ [][\A r \in Requests :
            (StepOf(r) /\ pc'[r] = "save" /\ txn'[r].route = "accept")
               => LET i == txn'[r].orderId IN
                  /\ orders[i].orderStatus \in {"Pending", "Processing"}
                  /\ orders[i].deliveryAgent = Null]_vars
    /\ [][\A r \in Requests :
            AcceptSucceeds(r)
               => LET i == txn[r].orderId IN
                  /\ orders[i].deliveryAgent \in {Null, txn[r].actor.id}
                  /\ orders'[i].deliveryAgent = txn[r].actor.id
                  /\ orders'[i].orderStatus = "Out for Delivery"]_vars

\* Quantity of product p on the lines the decrement loop of t has yet to run.
RECURSIVE RemainingQuantity(_, _, _)
RemainingQuantity(items, idx, p) ==
    IF idx > Len(items) THEN 0
    ELSE (IF items[idx].product = p THEN items[idx].quantity ELSE 0)
         + RemainingQuantity(items, idx + 1, p)

\* The lines still to decrement ask of some product more than the
\* transaction sees in stock.  Each line having passed the stock check, this
\* is a cart with the product on several lines.
Oversells(t) ==
    \E p \in Products :
        RemainingQuantity(t.items, t.idx, p) > t.view[p].stockQuantity

\* C30: a commitment whose cart has a product on several lines, each within
\* stock and their sum above it, does not succeed: every step of it leaves
\* the ledger and every product as they were, it never comes to commit, and
\* it ends with an error and its transaction gone.
C30_DuplicateLinesRefused ==
    [][\A r \in Requests :
          (txn[r].kind = "order" /\ Oversells(txn[r]) /\ StepOf(r))
             => /\ UNCHANGED <<products, orders>>
                /\ pc'[r] # "commit"
                /\ pc'[r] = "idle" => /\ resp'[r].status \in {400, 500}
                                      /\ txn'[r] = NoTxn
                /\ pc'[r] # "idle" => Oversells(txn'[r])]_vars

\* C30 witness: a commitment of two lines of P1, each within the stock and
\* together above it, has decremented its first line in its transaction and
\* comes to the second; nothing of it is in the store.
C30_Witness ==
    \E r \in Requests :
        /\ txn[r].kind = "order"
        /\ pc[r] = "decrement"
        /\ txn[r].idx = 2
        /\ txn[r].items[1].product = "P1"
        /\ txn[r].items[2].product = "P1"
        /\ txn[r].items[2].quantity <= InitStockOf["P1"]
        /\ txn[r].view["P1"].stockQuantity < InitStockOf["P1"]
        /\ Oversells(txn[r])
        /\ products = InitProducts
        /\ orders = <<>>

====
